---- MODULE Spec2Model ----
(***************************************************************************)
(* A model of src/src/index.ts: the GlimmerCompiler webpack plugin.        *)
(*                                                                         *)
(* One plugin instance is constructed from an options object and applied   *)
(* to a host compiler.  The host then drives build sessions                *)
(* (compilations).  For every compilation it fires, in this order,         *)
(* 'this-compilation', the module build (during which loaders call         *)
(* addDataSegmentModule / addComponent / addAST), and the seal:            *)
(* 'optimize-tree' (asynchronous, awaited), 'additional-assets' and the    *)
(* 'need-additional-seal' poll; a true answer makes the host unseal        *)
(* (which empties the asset map) and seal again.                           *)
(*                                                                         *)
(* The handlers of the plugin are modelled statement by statement; the     *)
(* Bundle class (./bundle) is an accumulator of templates whose compile()  *)
(* either returns a (bytecode, data) pair or throws.                       *)
(***************************************************************************)
EXTENDS Integers, Sequences, FiniteSets, TLC

\* ------------------------------------------------------------------ bounds
MaxSessions == 2
NumModules == 2
MaxPlaceholders == 2
NumPaths == 1

Sessions == 1..MaxSessions
Arrays == 0..MaxSessions
Modules == 1..NumModules
Paths == 1..NumPaths
Errors == {"E1", "E2"}

\* Loader option objects created, and constructor calls made, before the
\* build.
MaxOptions == 3
MaxInstances == 3
LoaderPaths == {"./loaders/component", "./loaders/data"}

\* The values of options.mode ("none": the key is absent) and whether
\* options.CompilerDelegate is supplied.
Modes == {"none", "basic", "module-unification"}
PluginOptions == [mode : Modes, CompilerDelegate : BOOLEAN]

\* options.output, and the name of an asset the host itself emits.
output == "templates.gbx"
HostAsset == "main.js"

Undefined == "undefined"
\* No entry in an asset map; no __table on a module.
NoAsset == <<>>
NoSource == <<>>
AssetNames == {output, HostAsset}

VARIABLES
  options,                  \* this.options
  ctor,                     \* "ok" | "threw": how the constructor ended
  applied,                  \* apply(compiler) has subscribed 'this-compilation'
  hostOverlaps,             \* the instance serves compilations that the host runs at the same time
  loaderOptions,            \* the module-level `loaderOptions`: the pending option objects
  compilers,                \* the constructor calls so far: whether each threw, and its this.loaderOptions
  optionObjects,            \* the option objects: the descriptor's loader, the `compiler` field
                            \* (0: none), and how it was made and which instances it was bound to
  started,                  \* number of 'this-compilation' events so far
  dataSegmentModules,       \* the arrays: [0] the field initializer's, [s] session s's closure variable;
                            \* an entry is the module pushed, with the session and host phase of the push
  thisDataSegmentModules,   \* which array this.dataSegmentModules refers to
  bundles,                  \* the Bundle objects, by creating session: what was registered into
                            \* each, <<kind, path, session of the registration>>
  thisBundle,               \* which Bundle this.bundle refers to (0: undefined)
  resealed,                 \* session s's closure variable `resealed`
  pc,                       \* where the host is in session s
  promises,                 \* the promises of rewriteDataSegmentModules, one per rebuild request
  aggregate,                \* the Promise.all(...).then(() => undefined) of session s
  additionalAssetsHandlers, \* handlers on compilation s: the bytecode each closes over
  needAdditionalSealHandlers, \* number of 'need-additional-seal' handlers on compilation s
  assets,                   \* compilation.assets of session s, by asset name
  moduleTable,              \* module.__table
  moduleUsed,               \* mod.used / mod.usedExports of the modules of compilation s
  finishCalls,              \* number of compilation.finish() calls of session s
  thrown,                   \* the exception that escaped a handler of session s
  events                    \* history of session s: what its handlers did, in order

vars == <<options, ctor, applied, hostOverlaps, loaderOptions, compilers, optionObjects,
          started, dataSegmentModules, thisDataSegmentModules,
          bundles, thisBundle, resealed, pc, promises, aggregate,
          additionalAssetsHandlers, needAdditionalSealHandlers, assets,
          moduleTable, moduleUsed, finishCalls, thrown, events>>

pluginVars == <<options, ctor, applied, hostOverlaps, loaderOptions, compilers, optionObjects>>
buildVars == <<started, dataSegmentModules, thisDataSegmentModules, bundles,
               thisBundle, moduleTable>>
sessionVars == <<resealed, pc, promises, aggregate, additionalAssetsHandlers,
                 needAdditionalSealHandlers, assets, moduleUsed, finishCalls,
                 thrown, events>>

\* ----------------------------------------------------------------- helpers
\* An event of a session's history: its kind, the registry entry (index) and
\* module it concerns (0: none) and the value it carries.  A "compile" event
\* has i = 1 and v the output when compile() returned, i = 0 when it threw.
Ev(k, i, m, v) == [k |-> k, i |-> i, m |-> m, v |-> v]

\* Position of the first event of kind k in log (0: none).
FirstIndex(log, k) ==
  IF \E j \in 1..Len(log) : log[j].k = k
  THEN CHOOSE j \in 1..Len(log) : log[j].k = k /\ \A h \in 1..(j-1) : log[h].k # k
  ELSE 0

\* ------------------------------------------------------------- constructor
\* Mutant: the constructor does not check that the two options exclude each
\* other.
ConstructorNeverThrows(opts) == FALSE

\* Mutant: the declared mode 'basic' resolves too.
DelegateResolvesBasic(opts) == opts.CompilerDelegate \/ opts.mode # "none"

\* constructor: `if (options.mode && options.CompilerDelegate) throw`.
ConstructorThrows(opts) == opts.mode # "none" /\ opts.CompilerDelegate

\* getCompilerDelegateFor: an explicit delegate, or the one recognized mode.
DelegateResolves(opts) == opts.CompilerDelegate \/ opts.mode = "module-unification"

\* The instance made by one constructor call, with no option object pending.
FirstCompiler(opts) == <<[threw |-> ConstructorThrows(opts), loaderOptions |-> <<>>]>>

\* No compilation has started.
NoSession ==
  /\ started = 0
  /\ dataSegmentModules = [a \in Arrays |-> <<>>]
  /\ thisDataSegmentModules = 0
  /\ bundles = [s \in Sessions |-> {}]
  /\ thisBundle = 0
  /\ resealed = [s \in Sessions |-> FALSE]
  /\ pc = [s \in Sessions |-> "none"]
  /\ promises = [s \in Sessions |-> <<>>]
  /\ aggregate = [s \in Sessions |-> [state |-> "none", reason |-> Undefined]]
  /\ additionalAssetsHandlers = [s \in Sessions |-> <<>>]
  /\ needAdditionalSealHandlers = [s \in Sessions |-> 0]
  /\ assets = [s \in Sessions |-> [n \in AssetNames |-> NoAsset]]
  /\ moduleTable = [m \in Modules |-> NoSource]
  /\ moduleUsed = [s \in Sessions |-> [m \in Modules |-> "null"]]
  /\ finishCalls = [s \in Sessions |-> 0]
  /\ thrown = [s \in Sessions |-> "none"]
  /\ events = [s \in Sessions |-> <<>>]

Init ==
  /\ options \in PluginOptions
  /\ ctor = IF ConstructorThrows(options) THEN "threw" ELSE "ok"
  /\ applied = FALSE
  /\ hostOverlaps = FALSE
  /\ loaderOptions = <<>>
  /\ compilers = FirstCompiler(options)
  /\ optionObjects = <<>>
  /\ NoSession

\* apply(compiler): subscribes the 'this-compilation' handler.
Apply ==
  /\ ctor = "ok"
  /\ ~applied
  /\ applied' = TRUE
  /\ UNCHANGED <<options, ctor, hostOverlaps, loaderOptions, compilers, optionObjects,
                 started, dataSegmentModules, thisDataSegmentModules, bundles,
                 thisBundle, moduleTable>>
  /\ UNCHANGED sessionVars

\* The host runs one compilation of a compiler at a time: a new one starts
\* when the previous one has ended or was abandoned during the module build.
\* Compilations of an instance shared by several compilers start at any time.
HostMayStartSession ==
  IF started = 0 \/ hostOverlaps THEN TRUE
  ELSE pc[started] \in {"building", "done", "failed", "noHandler"}

\* Mutant: the handler keeps the registry of the previous session.
ThisCompilationKeepsRegistry(s) ==
  /\ dataSegmentModules' =
       [dataSegmentModules EXCEPT ![s] = dataSegmentModules[thisDataSegmentModules]]
  /\ thisDataSegmentModules' = s
  /\ IF DelegateResolves(options)
     THEN /\ bundles' = [bundles EXCEPT ![s] = {}]
          /\ thisBundle' = s
          /\ resealed' = [resealed EXCEPT ![s] = FALSE]
          /\ pc' = [pc EXCEPT ![s] = "building"]
          /\ UNCHANGED thrown
     ELSE /\ thrown' = [thrown EXCEPT ![s] = "configError"]
          /\ pc' = [pc EXCEPT ![s] = "noHandler"]
          /\ UNCHANGED <<bundles, thisBundle, resealed>>

\* The 'this-compilation' handler.
ThisCompilationHandler(s) ==
  /\ dataSegmentModules' = [dataSegmentModules EXCEPT ![s] = <<>>]
  /\ thisDataSegmentModules' = s
  /\ IF DelegateResolves(options)
     THEN /\ bundles' = [bundles EXCEPT ![s] = {}]
          /\ thisBundle' = s
          /\ resealed' = [resealed EXCEPT ![s] = FALSE]
          /\ pc' = [pc EXCEPT ![s] = "building"]
          /\ UNCHANGED thrown
     ELSE /\ thrown' = [thrown EXCEPT ![s] = "configError"]
          /\ pc' = [pc EXCEPT ![s] = "noHandler"]
          /\ UNCHANGED <<bundles, thisBundle, resealed>>

ThisCompilation ==
  /\ applied
  /\ started < MaxSessions
  /\ HostMayStartSession
  /\ started' = started + 1
  /\ ThisCompilationHandler(started + 1)
  /\ UNCHANGED <<pluginVars, promises, aggregate, additionalAssetsHandlers,
                 needAdditionalSealHandlers, assets, moduleTable, moduleUsed,
                 finishCalls, events>>

\* Loaders run while the host builds the modules of the compilation it
\* started last; the loader of a placeholder also runs when the host rebuilds
\* that module during 'optimize-tree'.
LoadersRun(phases) ==
  IF hostOverlaps THEN \E s \in 1..started : pc[s] \in phases
  ELSE IF started = 0 THEN FALSE ELSE pc[started] \in phases

\* addDataSegmentModule(module): this.dataSegmentModules.push(module).
AddDataSegmentModule(m) ==
  /\ LoadersRun({"building", "optimizing"})
  /\ Len(dataSegmentModules[thisDataSegmentModules]) < MaxPlaceholders
  /\ dataSegmentModules' =
       [dataSegmentModules EXCEPT ![thisDataSegmentModules] =
          Append(@, [module |-> m, regIn |-> started, regPc |-> pc[started]])]
  /\ UNCHANGED <<pluginVars, started, thisDataSegmentModules, bundles, thisBundle,
                 moduleTable>>
  /\ UNCHANGED sessionVars

\* Bundle.add / Bundle.addAST: the bundle accumulates what is registered.
BundleAdd(b, kind, path) == [bundles EXCEPT ![b] = @ \cup {<<kind, path, started>>}]

\* addComponent(path, template, scope): this.bundle.add(...).
AddComponent(p) ==
  /\ LoadersRun({"building"})
  /\ <<"component", p, started>> \notin bundles[thisBundle]
  /\ bundles' = BundleAdd(thisBundle, "component", p)
  /\ UNCHANGED <<pluginVars, started, dataSegmentModules, thisDataSegmentModules,
                 thisBundle, moduleTable>>
  /\ UNCHANGED sessionVars

\* addAST(path, ast): this.bundle.addAST(...).
AddAST(p) ==
  /\ LoadersRun({"building"})
  /\ <<"ast", p, started>> \notin bundles[thisBundle]
  /\ bundles' = BundleAdd(thisBundle, "ast", p)
  /\ UNCHANGED <<pluginVars, started, dataSegmentModules, thisDataSegmentModules,
                 thisBundle, moduleTable>>
  /\ UNCHANGED sessionVars

\* ------------------------------------------------------ optimize-tree phase
\* Bundle.compile(): the compiled output of bundle b, made of what was
\* registered into it.
Compile(b) ==
  [bytecode |-> <<"bytecode", b, bundles[b]>>, data |-> <<"data", b, bundles[b]>>]

\* Mutant: the rebuild is requested before the source is replaced.
PopulateRebuildFirst(i, m, source) ==
  <<Ev("rebuildModule", i, m, Undefined), Ev("write", i, m, source)>>

\* Mutant: only the first write stores the source (a source consumed by its
\* first use).
PopulateFirstOnly(i, m, source) ==
  <<Ev("write", i, m, IF i = 1 THEN source ELSE NoSource),
    Ev("rebuildModule", i, m, Undefined)>>

\* populateDataSegment(module, compilation, source) for registry entry i:
\* `module.__table = source`, then rebuildModule(module, compilation), which
\* calls compilation.rebuildModule(module, callback).
PopulateDataSegment(i, m, source) ==
  <<Ev("write", i, m, source), Ev("rebuildModule", i, m, Undefined)>>

\* modules.map(m => populateDataSegment(m, compilation, source)), entries
\* i..Len(modules), in array order.
RECURSIVE MapPopulate(_, _, _)
MapPopulate(modules, i, source) ==
  IF i > Len(modules) THEN <<>>
  ELSE PopulateDataSegment(i, modules[i].module, source)
       \o MapPopulate(modules, i + 1, source)

\* rewriteDataSegmentModules(modules, compilation, source): what it does
\* synchronously.
RewriteDataSegmentModules(modules, source) == MapPopulate(modules, 1, source)

\* Mutant: the `if (resealed)` check is missing.
OptimizeTreeNeverSkips(s) == FALSE

\* `if (resealed) { return cb(); }`
OptimizeTreeSkips(s) == resealed[s]

\* The synchronous part of the 'optimize-tree' handler when it does not skip
\* and compile() returns `out`: compile, rewrite and request the rebuilds,
\* then register the two hooks.
FirstPassEvents(s, out) ==
  <<Ev("compile", 1, 0, out)>>
  \o RewriteDataSegmentModules(dataSegmentModules[s], out.data)
  \o <<Ev("plugin", 0, 0, "additional-assets"), Ev("plugin", 0, 0, "need-additional-seal")>>

\* Mutant: the handler emits the data segment instead of the bytecode.
AdditionalAssetsHandlerData(out) == out.data

\* The 'additional-assets' handler registered by the first pass closes over
\* the `bytecode` of `let { bytecode, data } = this.bundle.compile()`.
AdditionalAssetsHandler(out) == out.bytecode

\* The effect of a sequence of events on module.__table.
RECURSIVE ApplyWrites(_, _)
ApplyWrites(table, evs) ==
  IF evs = <<>> THEN table
  ELSE ApplyWrites(IF Head(evs).k = "write"
                   THEN [table EXCEPT ![Head(evs).m] = Head(evs).v]
                   ELSE table,
                   Tail(evs))

\* The promises created by the rebuildModule calls among the events.
RECURSIVE PromisesOf(_)
PromisesOf(evs) ==
  IF evs = <<>> THEN <<>>
  ELSE (IF Head(evs).k = "rebuildModule"
        THEN <<[module |-> Head(evs).m, state |-> "pending", reason |-> Undefined]>>
        ELSE <<>>) \o PromisesOf(Tail(evs))

\* Mutant: the aggregate fulfils as soon as one promise has.
PromiseAny(agg, ps, reason) ==
  IF agg.state # "pending" THEN agg
  ELSE IF reason # Undefined THEN [state |-> "rejected", reason |-> reason]
  ELSE IF Len(ps) = 0 \/ \E i \in 1..Len(ps) : ps[i].state = "fulfilled"
       THEN [state |-> "fulfilled", reason |-> Undefined]
       ELSE agg

\* Mutant: the aggregate of an empty list never settles.
PromiseAllNonEmpty(agg, ps, reason) ==
  IF agg.state # "pending" THEN agg
  ELSE IF reason # Undefined THEN [state |-> "rejected", reason |-> reason]
  ELSE IF Len(ps) > 0 /\ \A i \in 1..Len(ps) : ps[i].state = "fulfilled"
       THEN [state |-> "fulfilled", reason |-> Undefined]
       ELSE agg

\* Promise.all(promises).then(() => undefined): its state once promise
\* states are ps, given its state agg before the last settlement.  It rejects
\* with the reason of the first promise to reject and fulfils when all have.
PromiseAll(agg, ps, reason) ==
  IF agg.state # "pending" THEN agg
  ELSE IF reason # Undefined THEN [state |-> "rejected", reason |-> reason]
  ELSE IF \A i \in 1..Len(ps) : ps[i].state = "fulfilled"
       THEN [state |-> "fulfilled", reason |-> Undefined]
       ELSE agg

\* Mutant: cb() is called without waiting for the aggregate promise.
ThenCbEarly(before, after) ==
  IF before.state = "pending" THEN <<Ev("cb", 0, 0, "ok")>> ELSE <<>>

\* Mutant: cb is called at every rejection, not only when the aggregate
\* promise settles.
ThenCbEvery(before, after) ==
  IF before.state = "pending" /\ after.state = "fulfilled" THEN <<Ev("cb", 0, 0, "ok")>>
  ELSE IF after.state = "rejected" THEN <<Ev("cb", 0, 0, after.reason)>>
       ELSE <<>>

\* Mutant: `.then(cb)`, no rejection handler.
ThenCb(before, after) ==
  IF before.state = "pending" /\ after.state = "fulfilled" THEN <<Ev("cb", 0, 0, "ok")>>
  ELSE <<>>

\* `.then(cb, cb)`: the calls of cb caused by the aggregate promise going
\* from state `before` to state `after`.
ThenCbCb(before, after) ==
  IF before.state = "pending" /\ after.state = "fulfilled" THEN <<Ev("cb", 0, 0, "ok")>>
  ELSE IF before.state = "pending" /\ after.state = "rejected"
       THEN <<Ev("cb", 0, 0, after.reason)>>
       ELSE <<>>

\* Where the host goes when the optimize-tree series has called back.
AfterCallback(cur, cbs) ==
  IF cbs = <<>> THEN cur
  ELSE IF cbs[1].v = "ok" THEN "optimized" ELSE "failed"

Pending == [state |-> "pending", reason |-> Undefined]

\* The host works on the compilation it started last.

\* The host fires the hooks of the compilation it started last, or of any
\* compilation when they overlap.
HostDrives(s) == IF hostOverlaps THEN s \in 1..started ELSE s = started

\* The host seals compilation s and fires 'optimize-tree'; compileOk says
\* whether this.bundle.compile() returns or throws, should it be called.
OptimizeTree(s, compileOk) ==
  /\ HostDrives(s)
  /\ pc[s] \in {"building", "unsealed"}
  /\ moduleUsed' = [moduleUsed EXCEPT ![s] = [m \in Modules |-> "set"]]
  /\ IF OptimizeTreeSkips(s)
     THEN /\ events' = [events EXCEPT ![s] =
                          @ \o <<Ev("optimize-tree", 0, 0, "skip"), Ev("cb", 0, 0, "ok")>>]
          /\ pc' = [pc EXCEPT ![s] = "optimized"]
          /\ UNCHANGED <<moduleTable, promises, aggregate, additionalAssetsHandlers,
                         needAdditionalSealHandlers, thrown>>
     ELSE IF ~compileOk
     THEN /\ events' = [events EXCEPT ![s] =
                          @ \o <<Ev("optimize-tree", 0, 0, "run"), Ev("compile", 0, 0, Undefined)>>]
          /\ thrown' = [thrown EXCEPT ![s] = "compileError"]
          /\ pc' = [pc EXCEPT ![s] = "failed"]
          /\ UNCHANGED <<moduleTable, promises, aggregate, additionalAssetsHandlers,
                         needAdditionalSealHandlers>>
     ELSE LET out == Compile(thisBundle)
              evs == FirstPassEvents(s, out)
              ps == PromisesOf(evs)
              agg == PromiseAll(Pending, ps, Undefined)
              cbs == ThenCbCb(Pending, agg)
          IN /\ moduleTable' = ApplyWrites(moduleTable, evs)
             /\ promises' = [promises EXCEPT ![s] = ps]
             /\ aggregate' = [aggregate EXCEPT ![s] = agg]
             /\ additionalAssetsHandlers' =
                  [additionalAssetsHandlers EXCEPT ![s] =
                     Append(@, AdditionalAssetsHandler(out))]
             /\ needAdditionalSealHandlers' =
                  [needAdditionalSealHandlers EXCEPT ![s] = @ + 1]
             /\ events' = [events EXCEPT ![s] =
                             @ \o <<Ev("optimize-tree", 0, 0, "run")>> \o evs \o cbs]
             /\ pc' = [pc EXCEPT ![s] = AfterCallback("optimizing", cbs)]
             /\ UNCHANGED thrown
  /\ UNCHANGED <<pluginVars, started, dataSegmentModules, thisDataSegmentModules,
                 bundles, thisBundle, resealed, assets, finishCalls>>

\* The host completes the rebuild of registry entry i of session s and calls
\* the callback rebuildModule passed, with err (Undefined: no error).
RebuildModuleCallback(s, i, err) ==
  /\ i \in 1..Len(promises[s])
  /\ promises[s][i].state = "pending"
  /\ LET ps == [promises[s] EXCEPT ![i] =
                  [@ EXCEPT !.state = IF err = Undefined THEN "fulfilled" ELSE "rejected",
                            !.reason = err]]
         agg == PromiseAll(aggregate[s], ps, err)
         cbs == ThenCbCb(aggregate[s], agg)
     IN /\ promises' = [promises EXCEPT ![s] = ps]
        /\ aggregate' = [aggregate EXCEPT ![s] = agg]
        /\ events' = [events EXCEPT ![s] =
                        @ \o <<Ev("rebuilt", i, promises[s][i].module, err)>> \o cbs]
        /\ pc' = [pc EXCEPT ![s] = AfterCallback(@, cbs)]
  /\ UNCHANGED <<pluginVars, started, dataSegmentModules, thisDataSegmentModules,
                 bundles, thisBundle, resealed, additionalAssetsHandlers,
                 needAdditionalSealHandlers, assets, moduleTable, moduleUsed,
                 finishCalls, thrown>>

\* ------------------------------------------------- additional-assets phase
\* Mutant: the handlers write nothing.
RunAdditionalAssetsSkipped(handlers, j) == <<>>

\* The 'additional-assets' handlers registered on the compilation, run in
\* registration order from handler j on: each does
\* `compilation.assets[output] = bytecode; cb()`; an "assetWrite" event
\* carries <<asset name, content>>.
RECURSIVE RunAdditionalAssets(_, _)
RunAdditionalAssets(handlers, j) ==
  IF j > Len(handlers) THEN <<>>
  ELSE <<Ev("assetWrite", j, 0, <<output, handlers[j]>>)>>
       \o RunAdditionalAssets(handlers, j + 1)

\* The effect of a sequence of events on compilation.assets.
RECURSIVE ApplyAssetWrites(_, _)
ApplyAssetWrites(map, evs) ==
  IF evs = <<>> THEN map
  ELSE ApplyAssetWrites(IF Head(evs).k = "assetWrite"
                        THEN [map EXCEPT ![Head(evs).v[1]] = Head(evs).v[2]]
                        ELSE map,
                        Tail(evs))

\* After a successful 'optimize-tree' the host creates its own chunk assets
\* and fires 'additional-assets'.
AdditionalAssets(s) ==
  /\ HostDrives(s)
  /\ pc[s] = "optimized"
  /\ LET evs == RunAdditionalAssets(additionalAssetsHandlers[s], 1)
     IN /\ assets' = [assets EXCEPT ![s] =
                        ApplyAssetWrites([@ EXCEPT ![HostAsset] = <<"chunk">>], evs)]
        /\ events' = [events EXCEPT ![s] =
                        @ \o <<Ev("additional-assets", 0, 0, Undefined)>> \o evs]
  /\ pc' = [pc EXCEPT ![s] = "assetsEmitted"]
  /\ UNCHANGED <<pluginVars, started, dataSegmentModules, thisDataSegmentModules,
                 bundles, thisBundle, resealed, promises, aggregate,
                 additionalAssetsHandlers, needAdditionalSealHandlers, moduleTable,
                 moduleUsed, finishCalls, thrown>>

\* ---------------------------------------------- need-additional-seal poll
\* Mutant: the handler does not look at `resealed`.
NeedAdditionalSealAlways(s) == "true"

\* The 'need-additional-seal' handler: `if (resealed) return false;
\* resetCompilation(compilation); return resealed = true`.
NeedAdditionalSealAnswer(s) == IF resealed[s] THEN "false" ELSE "true"

\* The host's bail-result poll: the answer of the first registered handler
\* (every handler of the plugin answers true or false), Undefined when no
\* handler is registered.
BailResult(s) ==
  IF needAdditionalSealHandlers[s] = 0 THEN Undefined ELSE NeedAdditionalSealAnswer(s)

\* Mutant: the metadata is left as it is.
ResetNothing(used) == used

\* resetCompilation(compilation): clears used / usedExports of every module
\* and calls compilation.finish().
ResetCompilation(used) == [m \in DOMAIN used |-> "null"]

\* The host polls 'need-additional-seal' after the assets were emitted; on
\* true it unseals (emptying compilation.assets) and seals again.
NeedAdditionalSeal(s) ==
  /\ HostDrives(s)
  /\ pc[s] = "assetsEmitted"
  /\ LET answer == BailResult(s)
     IN IF answer = "true"
        THEN /\ moduleUsed' = [moduleUsed EXCEPT ![s] = ResetCompilation(@)]
             /\ finishCalls' = [finishCalls EXCEPT ![s] = @ + 1]
             /\ resealed' = [resealed EXCEPT ![s] = TRUE]
             /\ events' = [events EXCEPT ![s] =
                             @ \o <<Ev("resetCompilation", 0, 0, Undefined),
                                    Ev("need-additional-seal", 0, 0, "true")>>]
             /\ assets' = [assets EXCEPT ![s] = [n \in AssetNames |-> NoAsset]]
             /\ pc' = [pc EXCEPT ![s] = "unsealed"]
        ELSE /\ events' = [events EXCEPT ![s] =
                             Append(@, Ev("need-additional-seal", 0, 0, answer))]
             /\ pc' = [pc EXCEPT ![s] = "done"]
             /\ UNCHANGED <<moduleUsed, finishCalls, resealed, assets>>
  /\ UNCHANGED <<pluginVars, started, dataSegmentModules, thisDataSegmentModules,
                 bundles, thisBundle, promises, aggregate, additionalAssetsHandlers,
                 needAdditionalSealHandlers, moduleTable, thrown>>

\* ------------------------------------------------------------ specification
Next ==
  \/ Apply
  \/ ThisCompilation
  \/ \E m \in Modules : AddDataSegmentModule(m)
  \/ \E p \in Paths : AddComponent(p)
  \/ \E p \in Paths : AddAST(p)
  \/ \E s \in Sessions, compileOk \in BOOLEAN : OptimizeTree(s, compileOk)
  \/ \E s \in Sessions, i \in 1..MaxPlaceholders, err \in Errors \cup {Undefined} :
       RebuildModuleCallback(s, i, err)
  \/ \E s \in Sessions : AdditionalAssets(s)
  \/ \E s \in Sessions : NeedAdditionalSeal(s)

Spec == Init /\ [][Next]_vars

\* The host fires the hooks of a seal it has begun, and every rebuildModule
\* request is eventually answered.
Fairness ==
  /\ WF_vars(\E s \in Sessions, compileOk \in BOOLEAN : OptimizeTree(s, compileOk))
  /\ WF_vars(\E s \in Sessions, i \in 1..MaxPlaceholders, err \in Errors \cup {Undefined} :
               RebuildModuleCallback(s, i, err))
  /\ WF_vars(\E s \in Sessions : AdditionalAssets(s))
  /\ WF_vars(\E s \in Sessions : NeedAdditionalSeal(s))

\* The plugin instance is applied to compilers whose compilations overlap
\* (one instance shared by the configurations of a multi-compiler build),
\* in the one mode that resolves; compile() returns and the rebuilds succeed.
InitOverlap ==
  /\ options = [mode |-> "module-unification", CompilerDelegate |-> FALSE]
  /\ ctor = "ok"
  /\ applied = FALSE
  /\ hostOverlaps = TRUE
  /\ loaderOptions = <<>>
  /\ compilers = FirstCompiler(options)
  /\ optionObjects = <<>>
  /\ NoSession

NextOverlap ==
  \/ Apply
  \/ ThisCompilation
  \/ \E m \in Modules : AddDataSegmentModule(m)
  \/ \E p \in Paths : AddComponent(p)
  \/ \E s \in Sessions : OptimizeTree(s, TRUE)
  \/ \E s \in Sessions, i \in 1..MaxPlaceholders : RebuildModuleCallback(s, i, Undefined)
  \/ \E s \in Sessions : AdditionalAssets(s)
  \/ \E s \in Sessions : NeedAdditionalSeal(s)

OverlapSpec == InitOverlap /\ [][NextOverlap]_vars

\* ------------------------------------------------------- loader factories
\* The option objects of a list.
Range(list) == {list[j] : j \in 1..Len(list)}

\* Mutant: the constructor leaves the pending list as it is.
DrainedKeeps(pending) == pending

\* constructor: `loaderOptions = [];`
Drained(pending) == <<>>

\* constructor: `for (let opts of loaderOptions) { opts.compiler = this; }`
BindPending(objs, pending, c) ==
  [o \in 1..Len(objs) |->
     IF o \in Range(pending)
     THEN [objs[o] EXCEPT !.compiler = c, !.bound = Append(@, c)]
     ELSE objs[o]]

\* loader(loaderPath), behind the static component / template / ast / data:
\* a new options object with no `compiler`, pushed on the pending list.
Loader(loaderPath) ==
  /\ Len(optionObjects) < MaxOptions
  /\ optionObjects' =
       Append(optionObjects,
              [loader |-> loaderPath, compiler |-> 0, static |-> TRUE, by |-> 0,
               made |-> Len(compilers), bound |-> <<>>])
  /\ loaderOptions' = Append(loaderOptions, Len(optionObjects) + 1)
  /\ UNCHANGED <<options, ctor, applied, hostOverlaps, compilers>>
  /\ UNCHANGED <<buildVars, sessionVars>>

\* new GlimmerCompiler(opts): throws before it touches the pending list, or
\* binds the pending option objects, keeps their list and leaves an empty one.
Constructor(opts) ==
  /\ Len(compilers) < MaxInstances
  /\ options' = opts
  /\ IF ConstructorThrows(opts)
     THEN /\ ctor' = "threw"
          /\ compilers' = Append(compilers, [threw |-> TRUE, loaderOptions |-> <<>>])
          /\ UNCHANGED <<loaderOptions, optionObjects>>
     ELSE /\ ctor' = "ok"
          /\ optionObjects' = BindPending(optionObjects, loaderOptions, Len(compilers) + 1)
          /\ compilers' =
               Append(compilers, [threw |-> FALSE, loaderOptions |-> loaderOptions])
          /\ loaderOptions' = Drained(loaderOptions)
  /\ UNCHANGED <<applied, hostOverlaps>>
  /\ UNCHANGED <<buildVars, sessionVars>>

\* instanceLoader(loaderPath, compiler), behind the instance's component /
\* template / ast / data: a new options object with `compiler`, pushed on
\* compiler.loaderOptions.
InstanceLoader(loaderPath, c) ==
  /\ c \in 1..Len(compilers)
  /\ ~compilers[c].threw
  /\ Len(optionObjects) < MaxOptions
  /\ optionObjects' =
       Append(optionObjects,
              [loader |-> loaderPath, compiler |-> c, static |-> FALSE, by |-> c,
               made |-> Len(compilers), bound |-> <<c>>])
  /\ compilers' = [compilers EXCEPT ![c].loaderOptions = Append(@, Len(optionObjects) + 1)]
  /\ UNCHANGED <<options, ctor, applied, hostOverlaps, loaderOptions>>
  /\ UNCHANGED <<buildVars, sessionVars>>

\* The module is loaded: no instance exists, nothing is pending.
InitLoader ==
  /\ options = Undefined
  /\ ctor = "none"
  /\ applied = FALSE
  /\ hostOverlaps = FALSE
  /\ loaderOptions = <<>>
  /\ compilers = <<>>
  /\ optionObjects = <<>>
  /\ NoSession

NextLoader ==
  \/ \E loaderPath \in LoaderPaths : Loader(loaderPath)
  \/ \E opts \in PluginOptions : Constructor(opts)
  \/ \E loaderPath \in LoaderPaths, c \in 1..MaxInstances : InstanceLoader(loaderPath, c)

LoaderSpec == InitLoader /\ [][NextLoader]_vars

\* One build: the host starts a single compilation and runs it.
NextOneBuild ==
  \/ Apply
  \/ (started = 0 /\ ThisCompilation)
  \/ \E m \in Modules : AddDataSegmentModule(m)
  \/ \E p \in Paths : AddComponent(p)
  \/ \E p \in Paths : AddAST(p)
  \/ \E s \in Sessions, compileOk \in BOOLEAN : OptimizeTree(s, compileOk)
  \/ \E s \in Sessions, i \in 1..MaxPlaceholders, err \in Errors \cup {Undefined} :
       RebuildModuleCallback(s, i, err)
  \/ \E s \in Sessions : AdditionalAssets(s)
  \/ \E s \in Sessions : NeedAdditionalSeal(s)

FairSpec == Init /\ [][NextOneBuild]_vars /\ Fairness

\* ---------------------------------------------------------------- histories
\* The positions of the events of kind k in log.
Kinds(log, k) == {j \in 1..Len(log) : log[j].k = k}

\* compile() was called in session s and returned.
Compiled(s) == \E j \in Kinds(events[s], "compile") : events[s][j].i = 1

\* What the first compile() of session s returned.
CompileOut(s) == events[s][FirstIndex(events[s], "compile")].v

\* The registry entries of session s pushed before its optimize phase fired.
EntriesBefore(s) ==
  {i \in 1..Len(dataSegmentModules[s]) : dataSegmentModules[s][i].regPc = "building"}

\* ------------------------------------------------------------------- claims
\* C1: in every session compile is invoked at most once, and once the
\* optimize phase has fired it has been invoked exactly once, as the first
\* thing the first firing did; no later firing invokes it.
C1_CompileExactlyOnce ==
  \A s \in Sessions :
    LET log == events[s]
        fires == Kinds(log, "optimize-tree")
        comps == Kinds(log, "compile")
    IN /\ Cardinality(comps) <= 1
       /\ fires # {} => comps = {FirstIndex(log, "optimize-tree") + 1}

\* C1 witness: a session whose optimize phase fired twice.
C1_Witness ==
  \E s \in Sessions :
    /\ Cardinality(Kinds(events[s], "optimize-tree")) = 2
    /\ Cardinality(Kinds(events[s], "compile")) = 1

\* C2: in every session the need-additional-seal poll answers true on the
\* first poll and false on every later one, and the guard is tripped exactly
\* from the first poll on (it is never reset within the session).
C2_ResealOnlyOnFirstPoll ==
  \A s \in Sessions :
    LET log == events[s]
        polls == Kinds(log, "need-additional-seal")
    IN /\ \A j \in polls :
            /\ log[j].v \in {"true", "false"}
            /\ (log[j].v = "true") <=> (j = FirstIndex(log, "need-additional-seal"))
       /\ resealed[s] <=> (polls # {})

\* C2 witness: a session polled twice.
C2_Witness ==
  \E s \in Sessions : Cardinality(Kinds(events[s], "need-additional-seal")) = 2

\* C3: a started session holds nothing of an earlier one: its registry has
\* only entries pushed since its start (it started empty), before its first
\* optimize phase its guard is untripped, every placeholder its optimize
\* phase writes or rebuilds was registered since its start, and the bundle it
\* compiles holds only templates registered since its start (it was fresh).
C3_FreshSession ==
  \A s \in Sessions :
    pc[s] \notin {"none", "noHandler"} =>
      LET log == events[s]
          reg == dataSegmentModules[s]
      IN /\ \A i \in 1..Len(reg) : reg[i].regIn >= s
         /\ pc[s] = "building" => ~resealed[s] /\ log = <<>>
         /\ \A j \in Kinds(log, "write") \cup Kinds(log, "rebuildModule") :
              /\ log[j].i \in 1..Len(reg)
              /\ reg[log[j].i].module = log[j].m
              /\ reg[log[j].i].regIn >= s
         /\ \A j \in Kinds(log, "compile") :
              log[j].i = 1 => \A t \in log[j].v.bytecode[3] : t[3] >= s

\* C3 witness: session 2 has compiled and rewritten a placeholder after
\* session 1, which had placeholders and templates, was resealed.
C3_Witness ==
  /\ MaxSessions >= 2
  /\ resealed[1]
  /\ Len(dataSegmentModules[1]) > 0
  /\ bundles[1] # {}
  /\ Compiled(2)
  /\ Kinds(events[2], "write") # {}

\* C4: when a build has completed, the asset map holds the bytecode of the
\* session's one compile under `output`, every write of the plugin went to
\* `output`, and no other entry of the map comes from the plugin.
C4_OneBytecodeAsset ==
  \A s \in Sessions :
    pc[s] = "done" =>
      LET log == events[s]
      IN /\ Compiled(s)
         /\ Cardinality(Kinds(log, "compile")) = 1
         /\ assets[s][output] = CompileOut(s).bytecode
         /\ \A j \in Kinds(log, "assetWrite") : log[j].v[1] = output
         /\ \A n \in AssetNames \ {output} : assets[s][n] = <<"chunk">>

\* C4 witness: a completed build whose bundle had a template.
C4_Witness ==
  \E s \in Sessions : pc[s] = "done" /\ CompileOut(s).bytecode[3] # {}

\* C5: the first optimize phase requests exactly one rebuild per registry
\* entry pushed before it, for that entry's module, and the phase calls back
\* without error only after every one of them has completed without error.
C5_RebuildAll ==
  \A s \in Sessions :
    Compiled(s) =>
      LET log == events[s]
          reg == dataSegmentModules[s]
          N == EntriesBefore(s)
          reqs == Kinds(log, "rebuildModule")
      IN /\ Cardinality(reqs) = Cardinality(N)
         /\ Len(promises[s]) = Cardinality(N)
         /\ \A i \in N :
              Cardinality({j \in reqs : log[j].i = i /\ log[j].m = reg[i].module}) = 1
         /\ (\E j \in Kinds(log, "cb") : log[j].v = "ok") =>
              \A i \in N : \E r \in Kinds(log, "rebuilt") :
                /\ log[r].i = i
                /\ log[r].v = Undefined
                /\ r < FirstIndex(log, "cb")

\* C5 witness: a phase with two placeholders has called back without error.
C5_Witness ==
  \E s \in Sessions :
    /\ Cardinality(EntriesBefore(s)) = 2
    /\ Kinds(events[s], "cb") # {}
    /\ events[s][FirstIndex(events[s], "cb")].v = "ok"

\* C6: once a rebuild has failed, the phase has called back exactly once,
\* right then, with the error of the first rebuild that failed; the guard is
\* not tripped, no reset or reseal is requested and no bytecode is written.
C6_RebuildFailureFailsPhase ==
  \A s \in Sessions :
    LET log == events[s]
        fails == {j \in Kinds(log, "rebuilt") : log[j].v # Undefined}
    IN fails # {} =>
         LET f == CHOOSE j \in fails : \A h \in fails : j <= h
         IN /\ Kinds(log, "cb") = {f + 1}
            /\ log[f + 1].v = log[f].v
            /\ pc[s] = "failed"
            /\ ~resealed[s]
            /\ finishCalls[s] = 0
            /\ Kinds(log, "need-additional-seal") = {}
            /\ Kinds(log, "resetCompilation") = {}
            /\ Kinds(log, "assetWrite") = {}
            /\ assets[s][output] = NoAsset

\* C6 witness: of two placeholders the first was rebuilt and the second
\* failed with E1.
C6_Witness ==
  \E s \in Sessions :
    /\ Len(promises[s]) = 2
    /\ promises[s][1].state = "fulfilled"
    /\ promises[s][2].state = "rejected"
    /\ promises[s][2].reason = "E1"

\* C7 (as claimed): when compile throws, the error reaches the host through
\* the optimize phase's callback, and nothing is rewritten, rebuilt or
\* resealed.
C7_CompileErrorViaCallback ==
  \A s \in Sessions :
    LET log == events[s]
    IN (\E j \in Kinds(log, "compile") : log[j].i = 0) =>
         /\ \E j \in Kinds(log, "cb") : log[j].v # "ok"
         /\ Kinds(log, "write") = {}
         /\ Kinds(log, "rebuildModule") = {}
         /\ ~resealed[s]

\* C8 (as claimed): the bytecode is written at most once per session and
\* never after the reseal was requested.
C8_WriteOncePerSession ==
  \A s \in Sessions :
    LET log == events[s]
    IN /\ Cardinality(Kinds(log, "assetWrite")) <= 1
       /\ \A j \in Kinds(log, "assetWrite") :
            \A t \in Kinds(log, "need-additional-seal") : j < t

\* C8 (amended): the emit-assets hook is registered once per session, by the
\* pass that compiled; it then writes that compile's bytecode under `output`
\* at every emit-assets firing of the session, the reseal pass included, so a
\* completed build has written it twice.
C8_WriteOnEveryEmit ==
  \A s \in Sessions :
    LET log == events[s]
        regs == {j \in Kinds(log, "plugin") : log[j].v = "additional-assets"}
    IN /\ Cardinality(regs) = IF Compiled(s) THEN 1 ELSE 0
       /\ Len(additionalAssetsHandlers[s]) = Cardinality(regs)
       /\ Cardinality(Kinds(log, "assetWrite")) = Cardinality(Kinds(log, "additional-assets"))
       /\ \A j \in Kinds(log, "assetWrite") :
            log[j].v = <<output, CompileOut(s).bytecode>>
       /\ pc[s] = "done" =>
            /\ Cardinality(Kinds(log, "assetWrite")) = 2
            /\ \E j \in Kinds(log, "assetWrite") :
                 \E t \in Kinds(log, "need-additional-seal") : t < j /\ log[t].v = "true"

\* C8 witness: a completed build (emit-assets fired in both passes).
C8_Witness ==
  \E s \in Sessions :
    pc[s] = "done" /\ Cardinality(Kinds(events[s], "additional-assets")) = 2

\* C9: after the guard was tripped, an optimize-phase firing only calls back
\* without error: the session's history has no compile, write, rebuild
\* request or hook registration after the trip, each hook is registered at
\* most once, and every registry entry pushed before the first pass is
\* written exactly once, by the first pass.
C9_SecondPassOnlyCompletes ==
  \A s \in Sessions :
    LET log == events[s]
        t == FirstIndex(log, "need-additional-seal")
        writes == Kinds(log, "write")
    IN /\ t # 0 =>
            \A j \in (t + 1)..Len(log) :
              /\ log[j].k \notin {"compile", "write", "rebuildModule", "plugin"}
              /\ log[j].k = "optimize-tree" =>
                   /\ j < Len(log)
                   /\ log[j + 1].k = "cb"
                   /\ log[j + 1].v = "ok"
       /\ Len(additionalAssetsHandlers[s]) <= 1
       /\ needAdditionalSealHandlers[s] <= 1
       /\ \A j \in writes : log[j].i \in EntriesBefore(s)
       /\ Compiled(s) =>
            \A i \in EntriesBefore(s) :
              Cardinality({j \in writes : log[j].i = i}) = 1

\* C9 witness: a second optimize pass has run in a session with two
\* placeholders.
C9_Witness ==
  \E s \in Sessions :
    /\ Cardinality(EntriesBefore(s)) = 2
    /\ resealed[s]
    /\ Cardinality(Kinds(events[s], "optimize-tree")) = 2

\* C10: no placeholder is written before compile has returned, every write
\* stores that compile's data segment, every rebuild request follows the
\* write of the same entry, and when the first pass has completed without
\* error every entry pushed before it holds the data segment and was rebuilt.
C10_RewriteOrder ==
  \A s \in Sessions :
    LET log == events[s]
        reg == dataSegmentModules[s]
        c == FirstIndex(log, "compile")
    IN /\ \A j \in Kinds(log, "write") :
            /\ c # 0
            /\ c < j
            /\ log[c].i = 1
            /\ log[j].v = log[c].v.data
       /\ \A r \in Kinds(log, "rebuildModule") :
            \E w \in Kinds(log, "write") :
              w < r /\ log[w].i = log[r].i /\ log[w].m = log[r].m
       /\ (pc[s] = "optimized" /\ ~resealed[s]) =>
            \A i \in EntriesBefore(s) :
              /\ moduleTable[reg[i].module] = CompileOut(s).data
              /\ promises[s][i].module = reg[i].module
              /\ promises[s][i].state = "fulfilled"

\* C10 witness: the first pass has completed for two distinct placeholders.
C10_Witness ==
  \E s \in Sessions :
    /\ pc[s] = "optimized"
    /\ ~resealed[s]
    /\ Len(dataSegmentModules[s]) = 2
    /\ EntriesBefore(s) = {1, 2}
    /\ dataSegmentModules[s][1].module # dataSegmentModules[s][2].module

\* C11: once the guard is tripped (the reset and the reseal were requested),
\* every rebuild request of the session has completed without error before
\* the reset, none is in flight, and every entry pushed before the first pass
\* was written before the reset.
C11_ResealAfterRebuilds ==
  \A s \in Sessions :
    LET log == events[s]
        r == FirstIndex(log, "resetCompilation")
    IN (resealed[s] \/ finishCalls[s] > 0 \/ r # 0) =>
         /\ r # 0
         /\ \A i \in 1..Len(promises[s]) :
              /\ promises[s][i].state = "fulfilled"
              /\ \E j \in Kinds(log, "rebuilt") :
                   j < r /\ log[j].i = i /\ log[j].v = Undefined
         /\ Cardinality(Kinds(log, "rebuildModule")) = Len(promises[s])
         /\ \A i \in EntriesBefore(s) :
              \E w \in Kinds(log, "write") : w < r /\ log[w].i = i

\* C11 witness: the guard is tripped in a session that requested two
\* rebuilds.
C11_Witness ==
  \E s \in Sessions : resealed[s] /\ Len(promises[s]) = 2

\* C13: once a rebuild has failed, the history of the session has exactly
\* one callback, placed right after the first failure and carrying its
\* error; the aggregate keeps that error, and no rebuild that completes later
\* is followed by another callback.
C13_SingleCallbackFirstError ==
  \A s \in Sessions :
    LET log == events[s]
        done == Kinds(log, "rebuilt")
        fails == {j \in done : log[j].v # Undefined}
    IN fails # {} =>
         LET f == CHOOSE j \in fails : \A h \in fails : j <= h
         IN /\ Cardinality(Kinds(log, "cb")) = 1
            /\ log[f + 1].k = "cb"
            /\ log[f + 1].v = log[f].v
            /\ aggregate[s] = [state |-> "rejected", reason |-> log[f].v]
            /\ \A j \in done : j > f => (j = Len(log) \/ log[j + 1].k # "cb")

\* C13 witness: two rebuilds have failed, with different errors.
C13_Witness ==
  \E s \in Sessions :
    /\ Len(promises[s]) = 2
    /\ promises[s][1].state = "rejected"
    /\ promises[s][2].state = "rejected"
    /\ promises[s][1].reason # promises[s][2].reason

\* C14: a first pass that finds no placeholder compiles once, requests no
\* rebuild and has called back without error when the handler is done; and a
\* completed build has answered true to exactly one poll whatever the number
\* of placeholders.
C14_ZeroPlaceholders ==
  \A s \in Sessions :
    LET log == events[s]
        polls == Kinds(log, "need-additional-seal")
    IN /\ (Compiled(s) /\ EntriesBefore(s) = {}) =>
            /\ Cardinality(Kinds(log, "compile")) = 1
            /\ Kinds(log, "rebuildModule") = {}
            /\ promises[s] = <<>>
            /\ pc[s] \notin {"optimizing", "failed"}
            /\ FirstIndex(log, "cb") = FirstIndex(log, "compile") + 3
            /\ log[FirstIndex(log, "cb")].v = "ok"
            /\ polls # {} => log[FirstIndex(log, "need-additional-seal")].v = "true"
       /\ pc[s] = "done" =>
            Cardinality({j \in polls : log[j].v = "true"}) = 1

\* C14 witness: a build without placeholders has completed.
C14_Witness ==
  \E s \in Sessions : pc[s] = "done" /\ dataSegmentModules[s] = <<>>

\* C15: when a module is registered twice, every write to it stores the
\* compile's data segment, and when the first pass has completed without
\* error the module holds the data segment and each of the rebuilds requested
\* for it has completed.
C15_DuplicateRegistration ==
  \A s \in Sessions :
    LET log == events[s]
        reg == dataSegmentModules[s]
    IN \A i \in EntriesBefore(s), j \in EntriesBefore(s) :
         (i # j /\ reg[i].module = reg[j].module /\ Compiled(s)) =>
           /\ \A w \in Kinds(log, "write") :
                log[w].m = reg[i].module => log[w].v = CompileOut(s).data
           /\ Cardinality({w \in Kinds(log, "write") : log[w].m = reg[i].module}) >= 2
           /\ (pc[s] = "optimized" /\ ~resealed[s]) =>
                /\ moduleTable[reg[i].module] = CompileOut(s).data
                /\ promises[s][i].state = "fulfilled"
                /\ promises[s][j].state = "fulfilled"

\* C15 witness: the first pass has completed for a registry that holds the
\* same module twice.
C15_Witness ==
  \E s \in Sessions :
    /\ pc[s] = "optimized"
    /\ ~resealed[s]
    /\ EntriesBefore(s) = {1, 2}
    /\ dataSegmentModules[s][1].module = dataSegmentModules[s][2].module

\* C18: the reset is performed exactly when a poll answers true, right
\* before the answer (the metadata is then cleared and finish() was called
\* once); a poll that answers false leaves the metadata of the second seal and
\* the guard as they are; there is at most one reset per session.
C18_ResetOnlyOnTruePoll ==
  \A s \in Sessions :
    LET log == events[s]
        resets == Kinds(log, "resetCompilation")
        polls == Kinds(log, "need-additional-seal")
    IN /\ Cardinality(resets) <= 1
       /\ finishCalls[s] = Cardinality(resets)
       /\ \A r \in resets :
            r < Len(log) /\ log[r + 1].k = "need-additional-seal" /\ log[r + 1].v = "true"
       /\ \A j \in polls :
            IF log[j].v = "true" THEN j > 1 /\ log[j - 1].k = "resetCompilation"
            ELSE log[j - 1].k # "resetCompilation"
       /\ pc[s] = "unsealed" => \A m \in Modules : moduleUsed[s][m] = "null"
       /\ pc[s] = "done" => resealed[s] /\ \A m \in Modules : moduleUsed[s][m] = "set"

\* C18 witness: a session polled twice, the second poll answering false.
C18_Witness ==
  \E s \in Sessions :
    /\ pc[s] = "done"
    /\ finishCalls[s] = 1
    /\ Cardinality(Kinds(events[s], "need-additional-seal")) = 2

\* C16: with both `mode` and `CompilerDelegate` the constructor throws:
\* 'this-compilation' is never subscribed, no session starts, no Bundle is
\* created and no handler ever runs.
C16_BothOptionsFailConstruction ==
  (options.mode # "none" /\ options.CompilerDelegate) =>
    /\ ctor = "threw"
    /\ ~applied
    /\ started = 0
    /\ thisBundle = 0
    /\ thisDataSegmentModules = 0
    /\ \A s \in Sessions : pc[s] = "none" /\ events[s] = <<>>

\* C16 witness: a construction with mode 'basic' and a delegate has thrown.
C16_Witness ==
  options = [mode |-> "basic", CompilerDelegate |-> TRUE] /\ ctor = "threw"

\* C17: without an explicit delegate, a session gets its Bundle exactly when
\* the mode is 'module-unification'; with any other mode, or none, the
\* 'this-compilation' handler of every session throws the configuration
\* error while it sets the session up: no Bundle exists, no handler of the
\* session is registered and nothing is compiled.
C17_OnlyModuleUnificationResolves ==
  ~options.CompilerDelegate =>
    \A s \in Sessions :
      pc[s] # "none" =>
        IF options.mode = "module-unification"
        THEN thrown[s] # "configError" /\ pc[s] # "noHandler" /\ thisBundle # 0
        ELSE /\ thrown[s] = "configError"
             /\ pc[s] = "noHandler"
             /\ thisBundle = 0
             /\ bundles[s] = {}
             /\ events[s] = <<>>
             /\ needAdditionalSealHandlers[s] = 0
             /\ additionalAssetsHandlers[s] = <<>>

\* C17 witness: with mode 'basic' and with no mode, a session was started
\* and its setup has thrown.
C17_Witness ==
  /\ options \in {[mode |-> "basic", CompilerDelegate |-> FALSE],
                  [mode |-> "none", CompilerDelegate |-> FALSE]}
  /\ started = MaxSessions
  /\ \A s \in Sessions : thrown[s] = "configError"

\* C12: a session has at most one poll answered true, at most two
\* 'optimize-tree' passes and one compile; a completed build had exactly two
\* passes; and, every rebuild request being answered, a session whose
\* optimize phase has begun ends, completed or failed.
C12_NoLoop ==
  /\ [](\A s \in Sessions :
          LET log == events[s]
              polls == Kinds(log, "need-additional-seal")
          IN /\ Cardinality({j \in polls : log[j].v = "true"}) <= 1
             /\ Cardinality(Kinds(log, "optimize-tree")) <= 2
             /\ Cardinality(Kinds(log, "compile")) <= 1
             /\ pc[s] = "done" => Cardinality(Kinds(log, "optimize-tree")) = 2)
  /\ \A s \in Sessions :
       (pc[s] \in {"optimizing", "optimized", "assetsEmitted", "unsealed"})
         ~> (pc[s] \in {"done", "failed"})

\* C12 witness: a build with two rebuilds has completed after its second
\* pass.
C12_Witness ==
  \E s \in Sessions :
    /\ pc[s] = "done"
    /\ Len(promises[s]) = 2
    /\ Cardinality(Kinds(events[s], "optimize-tree")) = 2

\* C19: every compile of session K compiles the Bundle created at K's start,
\* every write of its optimize phase concerns an entry of K's registry, and
\* what is registered while K is the only session being built goes into K's
\* Bundle and registry.
C19_SessionOwnsItsBundle ==
  \A s \in Sessions :
    LET log == events[s]
    IN /\ \A j \in Kinds(log, "compile") :
            log[j].i = 1 => log[j].v.bytecode[2] = s
       /\ \A w \in Kinds(log, "write") :
            /\ log[w].i \in 1..Len(dataSegmentModules[s])
            /\ dataSegmentModules[s][log[w].i].module = log[w].m

\* The first instance constructed after `made` constructor calls (0: none
\* yet); a call that throws constructs none.
NextInstance(made) ==
  LET later == {c \in (made + 1)..Len(compilers) : ~compilers[c].threw}
  IN IF later = {} THEN 0 ELSE CHOOSE c \in later : \A d \in later : c <= d

\* The last constructor call that returned an instance (0: none yet).
LastInstance ==
  LET made == {c \in 1..Len(compilers) : ~compilers[c].threw}
  IN IF made = {} THEN 0 ELSE CHOOSE c \in made : \A d \in made : d <= c

\* The lists an option object is on: 0 the pending list, c instance c's.
ListsOf(o) ==
  {c \in 1..Len(compilers) : o \in Range(compilers[c].loaderOptions)}
    \cup (IF o \in Range(loaderOptions) THEN {0} ELSE {})

\* An options object of a static factory is pending and unbound until the
\* next instance is constructed, then bound to that instance, once, and on
\* its list; one of an instance factory is bound to its instance only.
BoundToOwner ==
  \A o \in 1..Len(optionObjects) :
    LET ob == optionObjects[o]
        owner == IF ob.static THEN NextInstance(ob.made) ELSE ob.by
    IN /\ ob.compiler = owner
       /\ ob.bound = (IF owner = 0 THEN <<>> ELSE <<owner>>)
       /\ ListsOf(o) = {owner}

\* C20 as stated: the options objects are bound to their owner, and after
\* every constructor call, one that throws included, nothing is pending that
\* was made before the call.
C20_PendingEmptyAfterEveryConstruction ==
  /\ BoundToOwner
  /\ \A o \in Range(loaderOptions) : optionObjects[o].made >= Len(compilers)

\* C20, amended: the options objects are bound to their owner, and after
\* every constructor call that returns an instance nothing is pending that
\* was made before the call; a call that throws leaves the pending list as
\* it was.
C20_PendingEmptyAfterInstance ==
  /\ BoundToOwner
  /\ \A o \in Range(loaderOptions) : optionObjects[o].made >= LastInstance

\* C20 witness: two static options made before a constructor call that threw
\* are bound to the instance constructed next, a later static option is
\* pending, and nothing else is.
C20_Witness ==
  /\ Len(compilers) = 2
  /\ compilers[1].threw
  /\ ~compilers[2].threw
  /\ Len(optionObjects) = 3
  /\ \A o \in 1..2 :
       /\ optionObjects[o].static
       /\ optionObjects[o].made = 0
       /\ optionObjects[o].compiler = 2
  /\ optionObjects[3].static
  /\ loaderOptions = <<3>>
====
